---- MODULE Spec2Model ----
(***************************************************************************)
(* A model of the elliptic-curve arithmetic engine: the algebra trait      *)
(* hierarchy (algebra.rs), the modular field (mod_field.rs), the const-    *)
(* generic field (field.rs), the curve point group (points_group.rs), the  *)
(* ElGamal scheme (ecc.rs) and the message codec (encoding_utils.rs).      *)
(*                                                                         *)
(* Every operation of the program is a pure function of its arguments and  *)
(* of a configuration object, so each is an operator here and the state    *)
(* machines below are harnesses that call the operations on inputs drawn   *)
(* from bounded sets and record the call and what it returned.             *)
(*                                                                         *)
(* Values.  A natural value (Natural) is an integer in 0..max.  A fatal    *)
(* failure (panic!, assert!, unwrap on None, todo!, arithmetic overflow in *)
(* a checked build) is the value PANIC; Option::None is NONE.  A panic in  *)
(* an argument is a panic of the call.                                     *)
(***************************************************************************)
EXTENDS Integers, Sequences, FiniteSets, TLC

VARIABLES
    alg,    \* the exponentiation harness: one call of exp and its result
    fld,    \* the field harness: the last field operation, its operands, its result
    sum,    \* the addition harness: one call of the field addition
    ecc,    \* the ElGamal harness of ecc.rs: key pair, message, ciphertext, plaintext
    crv,    \* the point-group harness: the curve and the points the last call returned
    cod,    \* the codec harness: the text, its points, the text read back
    e2e     \* the end-to-end harness: keys, text, scalars, transport string, result

vars == <<alg, fld, sum, ecc, crv, cod, e2e>>

\* ------------------------------------------------------------------ bounds
\* The widest natural type of the overflow harness has MaxWidth bits.
MaxWidth == 4
\* The field harness: the natural type has FieldWidth bits, the moduli are
\* 2..MaxRem.
FieldWidth == 4
MaxRem == 7
\* The largest value of the synthetic monoid Q and the largest exponent.
MaxQ == 7
MaxN == 9
\* The ElGamal harness of ecc.rs: the modulus MOD is a prime p = 3 (mod 4) in
\* 7..MaxMod, the scalars gen_keys and encrypt draw are 0..MaxScalar.
MaxMod == 11
MaxScalar == 8
\* The point-group harness: base64_to_points reads MaxCrvPts points at most.
MaxCrvPts == 1
\* The codec harness: the texts have MaxTextLen bytes at most, drawn from the
\* MaxByteKinds smallest non-zero bytes and the largest byte.
MaxTextLen == 4
MaxByteKinds == 1
\* The end-to-end harness: texts of MaxE2eLen bytes at most, scalars
\* 0..MaxE2eScalar.
MaxE2eLen == 3
MaxE2eScalar == 2
\* The codec: a byte is a digit 0..ByteRadix-1 and the natural type has
\* FieldLen bytes.
ByteRadix == 16
FieldLen == 4
MaxDepth == 6

\* ---------------------------------------------------------------- failures
PANIC == 0 - 1
NONE == 0 - 2

\* A loop that never ends returns nothing either.
HANG == 0 - 3

\* A point is the pair <<x, y>> of its coordinates' stored values; two points
\* are equal when the stored values are (the derived PartialEq).
PPANIC == <<PANIC, PANIC>>
PNONE == <<NONE, NONE>>
PHANG == <<HANG, HANG>>
IsPoint(p) == p[1] >= 0 /\ p[2] >= 0

\* The identity the test monoid Q declares (tests::exp5).
QIdentity == 1234

\* The curve y^2 = x^3 + 100 x + 1 and its generator (2500, 125001) of ecc.rs
\* and of the test configurations.
CurveA == 100
CurveB == 1
GenX == 2500
GenY == 125001
\* The bytes of a u64 coordinate and of a u128 scalar in a serialized key.
CoordLen == 8
ScalarLen == 16

RECURSIVE Pow2(_)
Pow2(w) == IF w = 0 THEN 1 ELSE 2 * Pow2(w - 1)

\* A field configuration: the modulus (ModFieldCfg.rem), the natural type's
\* maximum (Natural::max) and whether the build checks integer overflow (a
\* checked build panics on overflow, an unchecked one wraps).
FieldCfg(rem, w, dbg) == [rem |-> rem, max |-> Pow2(w) - 1, dbg |-> dbg]

\* Natural addition and subtraction of the fixed-width type.
NAdd(a, b, c) ==
    IF a < 0 \/ b < 0 THEN PANIC
    ELSE IF a + b > c.max THEN (IF c.dbg THEN PANIC ELSE (a + b) % (c.max + 1))
    ELSE a + b

NSub(a, b, c) ==
    IF a < 0 \/ b < 0 THEN PANIC
    ELSE IF a < b THEN (IF c.dbg THEN PANIC ELSE (a - b) % (c.max + 1))
    ELSE a - b

\* ------------------------------------------------------- mod_field.rs: gcd
RECURSIVE gcd(_, _)
gcd(a, b) ==
    IF a = b THEN a
    ELSE IF a = 0 THEN b
    ELSE IF b = 0 THEN a
    ELSE IF a > b THEN gcd(a % b, b)
    ELSE gcd(a, b % a)

\* ModField::new: every value constructed here is reduced.
FNew(p, c) == IF p < 0 THEN PANIC ELSE p % c.rem

\* A mutant of the addition: the sum is taken before it is reduced.
FAddOpNaive(a, b, c) == IF a < 0 \/ b < 0 THEN PANIC ELSE FNew(NAdd(a, b, c), c)

\* CommutativeOp<ops::Add> for ModField: the two-branch addition.
FAddOp(a, b, c) ==
    IF a < 0 \/ b < 0 THEN PANIC
    ELSE IF a > c.max - b
         THEN LET r1 == c.max % c.rem
                  r2 == (b - (c.max - a)) % c.rem
              IN  FNew(NAdd(r1, r2, c), c)
         ELSE FNew(a + b, c)

\* Inverse<ops::Add> for ModField: rem - val, stored as it is.
FAddInv(a, c) == IF a < 0 THEN PANIC ELSE NSub(c.rem, a, c)

FAddIdentity(c) == 0
FMulIdentity(c) == 1

\* ---------------------------------------------------------------- algebra.rs
RECURSIVE Op(_, _, _, _)
RECURSIVE Exp(_, _, _, _)

\* The operations on scalar-valued types are dispatched on the implementing
\* type and the operator tag: "QAdd" (the test monoid Q), "FAdd" and "FMul"
\* (ModField). The instance for Point<ModField> is PExp below.
Bad(tag, v) == v < 0
PanicOf(tag) == PANIC

Identity(tag, c) ==
    CASE tag = "QAdd" -> QIdentity
      [] tag = "FAdd" -> FAddIdentity(c)
      [] tag = "FMul" -> FMulIdentity(c)

\* A mutant of the exponentiation: the parity of the halved exponent is tested.
ExpParityOfHalf(tag, x, n, c) ==
    LET Combined(r) ==
            IF r < 0 THEN PanicOf(tag)
            ELSE Op(tag, r, IF (n \div 2) % 2 = 0 THEN r ELSE Op(tag, r, x, c), c)
    IN  IF x >= 0 /\ n > 1 THEN Combined(Exp(tag, x, n \div 2, c))
        ELSE IF Bad(tag, x) \/ n < 0 THEN PanicOf(tag)
        ELSE IF n = 0 THEN PanicOf(tag)
        ELSE x

\* CommutativeOp::exp. The recursive branch, the last of the source, is tested
\* first: the exponents 0 and 1 and a failed operand are told apart after it.
Exp(tag, x, n, c) ==
    LET Combined(r) ==
            IF r < 0 THEN PanicOf(tag)
            ELSE Op(tag, r, IF n % 2 = 0 THEN r ELSE Op(tag, r, x, c), c)
    IN  IF x >= 0 /\ n > 1 THEN Combined(Exp(tag, x, n \div 2, c))
        ELSE IF Bad(tag, x) \/ n < 0 THEN PanicOf(tag)
        ELSE IF n = 0 THEN PanicOf(tag)
        ELSE x

\* A mutant of the monoid exponentiation: exponent zero is passed on.
MonoidExpNoZero(tag, x, n, c) == Exp(tag, x, n, c)

\* CommutativeMonoid::exp
MonoidExp(tag, x, n, c) ==
    IF Bad(tag, x) \/ n < 0 THEN PanicOf(tag)
    ELSE IF n = 0 THEN Identity(tag, c)
    ELSE Exp(tag, x, n, c)

\* A mutant of the multiplication: the natural type's own product, wrapped.
FMulOpNative(a, b, c) ==
    IF a < 0 \/ b < 0 THEN PANIC ELSE FNew((a * b) % (c.max + 1), c)

\* CommutativeOp<ops::Mul> for ModField: a added to itself b.val times.
FMulOp(a, b, c) == IF a < 0 \/ b < 0 THEN PANIC ELSE MonoidExp("FAdd", a, b, c)

\* CommutativeOp<ops::Add> for the test monoid Q.
QAddOp(a, b, c) == IF a < 0 \/ b < 0 THEN PANIC ELSE a + b

Op(tag, a, b, c) ==
    CASE tag = "QAdd" -> QAddOp(a, b, c)
      [] tag = "FAdd" -> FAddOp(a, b, c)
      [] tag = "FMul" -> FMulOp(a, b, c)

\* A mutant of the inverse: zero and non-coprime values are not refused.
FMulInvUnchecked(a, c) ==
    IF a < 0 THEN PANIC ELSE MonoidExp("FMul", a, NSub(c.rem, 2, c), c)

\* InverseNonZero<ops::Mul> for ModField
FMulInv(a, c) ==
    IF a < 0 THEN PANIC
    ELSE IF gcd(c.rem, a) # 1 THEN NONE
    ELSE MonoidExp("FMul", a, NSub(c.rem, 2, c), c)

\* The Field trait's derived operations.
FAdd(a, b, c) == FAddOp(a, b, c)
FSub(a, b, c) == FAddOp(a, FAddInv(b, c), c)
FMul(a, b, c) == FMulOp(a, b, c)
FDiv(a, b, c) ==
    LET Unwrapped(i) == IF i = NONE THEN PANIC ELSE FMulOp(a, i, c)
    IN  Unwrapped(FMulInv(b, c))
FZero(c) == FAddIdentity(c)
FOne(c) == FMulIdentity(c)
FTwo(c) == FAdd(FOne(c), FOne(c), c)
FThree(c) == FAdd(FTwo(c), FOne(c), c)
FFour(c) == FAdd(FTwo(c), FTwo(c), c)
FPow(a, n, c) == MonoidExp("FMul", a, n, c)
FReciprocal(a, c) == FMulInv(a, c)
FNeg(a, c) == FAddInv(a, c)
FSqr(a, c) == FMul(a, a, c)
FCube(a, c) == FMul(FSqr(a, c), a, c)

\* DiscreteRoot<ops::Mul> for ModField
FSqrt(a, c) ==
    IF a < 0 THEN PANIC
    ELSE LET Root(e) ==
                 IF e = PANIC THEN PANIC
                 ELSE IF e # FOne(c) THEN NONE
                 ELSE IF c.rem % 4 = 3
                      THEN LET n == NAdd(c.rem, 1, c)
                           IN  IF n = PANIC THEN PANIC ELSE FPow(a, n \div 4, c)
                      ELSE PANIC
         IN  Root(FPow(a, NSub(c.rem, 1, c) \div 2, c))

\* FromRandom for ModField: the drawn natural value is reduced.
FRandom(drawn, c) == FNew(drawn, c)

\* RW for ModField: from_bytes stores the natural value it reads.
FFromBytes(n, c) == n

\* ------------------------------------------------------------ points_group.rs
\* A curve configuration (PointCfg): the generator g, the coefficients a and
\* b, and the field configuration cf.
PointCfg(g, a, b, cf) == [g |-> g, a |-> a, b |-> b, cf |-> cf]

\* The right-hand side x^3 + a*x + b of the curve equation.
CurveRhs(x, cp) ==
    FAdd(FAdd(FCube(x, cp.cf), FMul(cp.a, x, cp.cf), cp.cf), cp.b, cp.cf)

\* Point::new_unsafe
PNewUnsafe(x, y) == IF x < 0 \/ y < 0 THEN PPANIC ELSE <<x, y>>

\* A mutant of Point::new: the curve equation is not asserted.
PNewUnasserted(x, y, cp) == IF x < 0 \/ y < 0 THEN PPANIC ELSE <<x, y>>

\* Point::new
PNew(x, y, cp) ==
    IF x < 0 \/ y < 0 THEN PPANIC
    ELSE LET Asserted(lhs, rhs) ==
                 IF lhs < 0 \/ rhs < 0 THEN PPANIC
                 ELSE IF lhs = rhs THEN <<x, y>> ELSE PPANIC
         IN  Asserted(FSqr(y, cp.cf), CurveRhs(x, cp))

\* CommutativeOp<ops::Add> for Point
POp(p, q, c) ==
    IF ~IsPoint(p) \/ ~IsPoint(q) THEN PPANIC
    ELSE LET x1 == p[1]
             y1 == p[2]
             x2 == q[1]
             y2 == q[2]
         IN  IF x1 = x2 /\ y1 # y2 THEN PPANIC
             ELSE LET Y3(l, x3) ==
                          FNeg(FAdd(FMul(l, FSub(x3, x1, c.cf), c.cf), y1, c.cf), c.cf)
                      Third(l, x3) == PNew(x3, Y3(l, x3), c)
                      X3(l) == FSub(FSqr(l, c.cf), FAdd(x1, x2, c.cf), c.cf)
                      Through(l) == Third(l, X3(l))
                  IN  Through(IF p # q
                              THEN FDiv(FSub(y2, y1, c.cf), FSub(x2, x1, c.cf), c.cf)
                              ELSE FDiv(FAdd(FMul(FThree(c.cf), FSqr(x1, c.cf), c.cf),
                                             c.a, c.cf),
                                        FMul(FTwo(c.cf), y1, c.cf), c.cf))

\* CommutativeOp::exp, the instance compiled for Point.
RECURSIVE PExp(_, _, _)
PExp(p, n, c) ==
    LET Combined(r) ==
            IF ~IsPoint(r) THEN PPANIC
            ELSE POp(r, IF n % 2 = 0 THEN r ELSE POp(r, p, c), c)
    IN  IF IsPoint(p) /\ n > 1 THEN Combined(PExp(p, n \div 2, c))
        ELSE IF ~IsPoint(p) \/ n < 0 THEN PPANIC
        ELSE IF n = 0 THEN PPANIC
        ELSE p

\* A mutant of the point inverse: the point itself.
PInvSame(p, c) == IF ~IsPoint(p) THEN PPANIC ELSE PNewUnsafe(p[1], p[2])

\* Inverse<ops::Add> for Point
PInv(p, c) == IF ~IsPoint(p) THEN PPANIC ELSE PNewUnsafe(p[1], FNeg(p[2], c.cf))

\* Point::from_x
PFromX(x, cp) ==
    IF x < 0 THEN PPANIC
    ELSE LET Lifted(yres) == IF yres = NONE THEN PNONE ELSE PNew(x, yres, cp)
         IN  Lifted(FSqrt(CurveRhs(x, cp), cp.cf))

\* Point::random, given the value the loop's last draw reduced to: the loop
\* ends with the first draw that lifts to a point.
PRandom(drawn, cp) == PFromX(FRandom(drawn, cp.cf), cp)

\* -------------------------------------------------------------- base_traits.rs
\* A byte string is a sequence of bytes.
RECURSIVE RadixPow(_)
RadixPow(k) == IF k = 0 THEN 1 ELSE ByteRadix * RadixPow(k - 1)

\* The number of bytes of the natural n.
RECURSIVE NumBytes(_)
NumBytes(n) == IF n = 0 THEN 0 ELSE 1 + NumBytes(n \div ByteRadix)

\* RW::LEN of the natural type: size_of::<Self>().
NLen(c) == NumBytes(c.max)

\* to_le_bytes: the len bytes of n, the least significant first.
RECURSIVE ToLeBytes(_, _)
ToLeBytes(n, len) ==
    IF len = 0 THEN <<>> ELSE <<n % ByteRadix>> \o ToLeBytes(n \div ByteRadix, len - 1)

\* from_le_bytes
RECURSIVE FromLeBytes(_)
FromLeBytes(bs) == IF bs = <<>> THEN 0 ELSE bs[1] + ByteRadix * FromLeBytes(Tail(bs))

\* RW::to_bytes of the natural type
NToBytes(n, c) == ToLeBytes(n, NLen(c))

\* RW::from_bytes of the natural type: read_exact fails on a short read.
NFromBytes(bs, c) ==
    IF Len(bs) < NLen(c) THEN PANIC ELSE FromLeBytes(SubSeq(bs, 1, NLen(c)))

\* RW for ModField: to_bytes writes the stored value.
FToBytes(a, c) == NToBytes(a, c)

\* A mutant of the point's to_bytes: y is written before x.
PToBytesYFirst(p, cp) == FToBytes(p[2], cp.cf) \o FToBytes(p[1], cp.cf)

\* RW for Point: x then y; from_bytes builds the point unvalidated.
PToBytes(p, cp) == FToBytes(p[1], cp.cf) \o FToBytes(p[2], cp.cf)
PLen(cp) == NLen(cp.cf) * 2
PFromBytes(bs, cp) ==
    PNewUnsafe(FFromBytes(NFromBytes(bs, cp.cf), cp.cf),
               FFromBytes(NFromBytes(SubSeq(bs, NLen(cp.cf) + 1, Len(bs)), cp.cf), cp.cf))

\* Capacitor for ModField: how many whole bytes every value of which is below
\* the modulus.
Capacity(c) == NumBytes(c.rem) - 1

\* ----------------------------------------------------------- encoding_utils.rs
\* A vector of points, or a string, that a failed call did not return.
VPANIC == <<PPANIC>>
VHANG == <<PHANG>>
SPANIC == <<PANIC>>
SHANG == <<HANG>>

\* The first failure among the points, when there is one.
Checked(ps) ==
    LET bad == {i \in 1..Len(ps) : ~IsPoint(ps[i])}
    IN  IF bad = {} THEN ps
        ELSE <<ps[CHOOSE i \in bad : \A j \in bad : i <= j]>>

\* A transport string: the bytes a well-formed one decodes to.  TPANIC and
\* THANG stand for the string a failed call did not return.
TPANIC == [ok |-> FALSE, bytes |-> SPANIC]
THANG == [ok |-> FALSE, bytes |-> SHANG]
Base64Encode(bytes) == [ok |-> TRUE, bytes |-> bytes]
Base64Decode(s) == IF s.ok THEN s.bytes ELSE SPANIC

\* A mutant of Trial: the byte is never raised, the same x is tried again.
TrialSameByte(quintuple, cp, cap) ==
    LET Tried(point) == IF point # PNONE THEN point ELSE PHANG
    IN  Tried(PFromX(FFromBytes(NFromBytes(quintuple, cp.cf), cp.cf), cp))

\* bytes_to_point: the loop, from the buffer it holds.
RECURSIVE Trial(_, _, _)
Trial(quintuple, cp, cap) ==
    LET Tried(point) ==
            IF point # PNONE THEN point
            ELSE IF quintuple[cap + 1] = ByteRadix - 1
                 THEN (IF cp.cf.dbg THEN PPANIC ELSE PHANG)
                 ELSE Trial([quintuple EXCEPT ![cap + 1] = @ + 1], cp, cap)
    IN  Tried(PFromX(FFromBytes(NFromBytes(quintuple, cp.cf), cp.cf), cp))

\* A mutant of bytes_to_point: the byte raised is the last byte of the chunk.
bytes_to_pointLastByte(bytes, cp, cap) ==
    IF ~(Len(bytes) < NLen(cp.cf)) THEN PPANIC
    ELSE IF cap >= NLen(cp.cf) THEN PPANIC
    ELSE Trial(bytes \o [i \in 1..(NLen(cp.cf) - Len(bytes)) |-> 0], cp, cap - 1)

bytes_to_point(bytes, cp, cap) ==
    IF ~(Len(bytes) < NLen(cp.cf)) THEN PPANIC
    ELSE IF cap >= NLen(cp.cf) THEN PPANIC
    ELSE Trial(bytes \o [i \in 1..(NLen(cp.cf) - Len(bytes)) |-> 0], cp, cap)

Min(a, b) == IF a < b THEN a ELSE b

text_to_points(text, cp) ==
    LET m == Min(Capacity(cp.cf), NLen(cp.cf) - 1)
        eff == m - 1
    IN  IF m = 0 /\ (cp.cf.dbg \/ text # <<>>) THEN VPANIC
        ELSE IF m = 0 THEN <<>>
        ELSE IF ~(eff > 1) THEN VPANIC
        ELSE LET iter_count == Len(text) \div eff
                 whole == [i \in 1..iter_count |->
                             bytes_to_point(SubSeq(text, (i - 1) * eff + 1, i * eff), cp, eff)]
                 rest == IF Len(text) % eff # 0
                         THEN <<bytes_to_point(SubSeq(text, iter_count * eff + 1, Len(text)),
                                               cp, eff)>>
                         ELSE <<>>
             IN  Checked(whole \o rest)

\* A mutant of the reading loop: a zero byte does not end it.
TakeBytesPastZero(buf, k) == SubSeq(buf, 1, k)

\* A mutant of the reading loop: a zero byte is skipped and the loop goes on.
TakeBytesSkipZero(buf, k) ==
    LET NonZero(v) == v # 0 IN SelectSeq(SubSeq(buf, 1, k), NonZero)

\* The bytes of buf before the first zero, of the first k at most.
TakeBytes(buf, k) ==
    LET z == {i \in 1..k : buf[i] = 0}
    IN  IF z = {} THEN SubSeq(buf, 1, k)
        ELSE SubSeq(buf, 1, (CHOOSE i \in z : \A j \in z : i <= j) - 1)

\* points_to_text; a string is the sequence of its bytes.
RECURSIVE points_to_text(_, _, _)
points_to_text(points, cap, cp) ==
    IF points = <<>> THEN <<>>
    ELSE IF ~IsPoint(points[1]) THEN SPANIC
    ELSE LET buf == FToBytes(points[1][1], cp.cf)
             Pushed(rest) ==
                 IF rest = SPANIC THEN SPANIC
                 ELSE TakeBytes(buf, Min(Len(buf), cap)) \o rest
         IN  Pushed(points_to_text(Tail(points), cap, cp))

RECURSIVE AllBytes(_, _)
AllBytes(points, cp) ==
    IF points = <<>> THEN <<>> ELSE PToBytes(points[1], cp) \o AllBytes(Tail(points), cp)

points_to_base64(points, cp) == Base64Encode(AllBytes(points, cp))

base64_to_points(base64, cp) ==
    LET bytes == Base64Decode(base64)
    IN  IF bytes = SPANIC THEN VPANIC
        ELSE IF Len(bytes) % PLen(cp) # 0 THEN VPANIC
        ELSE [i \in 1..(Len(bytes) \div PLen(cp)) |->
                 PFromBytes(SubSeq(bytes, (i - 1) * PLen(cp) + 1, i * PLen(cp)), cp)]

\* ------------------------------------------------- ecc.rs, over any group
\* gen_keys: the public key of the drawn scalar pri is exp(g, pri).
gen_keys(pri, cp) == PExp(cp.g, pri, cp)

\* PublicKey::encrypt with the drawn scalar t: c1 = exp(g, t),
\* c2 = op(exp(pub, t), msg).
PublicKeyEncrypt(pub, msg, t, cp) ==
    LET Pair(c1, c2) ==
            IF ~IsPoint(c1) \/ ~IsPoint(c2) THEN <<PPANIC, PPANIC>> ELSE <<c1, c2>>
    IN  Pair(PExp(cp.g, t, cp), POp(PExp(pub, t, cp), msg, cp))

\* PrivateKey::decrypt: op(c2, inv(exp(c1, pri))).
PrivateKeyDecrypt(pri, c, cp) ==
    POp(c[2], PInv(PExp(c[1], pri, cp), cp), cp)

\* encrypt_message_and_encode, with the scalars ts the generator yields, one
\* for each point.
RECURSIVE EncryptAll(_, _, _, _)
EncryptAll(pub, points, ts, cp) ==
    IF points = <<>> THEN <<>>
    ELSE PublicKeyEncrypt(pub, points[1], ts[1], cp)
            \o EncryptAll(pub, Tail(points), Tail(ts), cp)

encrypt_message_and_encode(pub, msg, ts, cp) ==
    LET Encoded(encrypted) ==
            IF encrypted = VPANIC THEN TPANIC ELSE points_to_base64(encrypted, cp)
        Encrypted(points) ==
            IF points = VPANIC THEN TPANIC
            ELSE IF points = VHANG THEN THANG
            ELSE Encoded(Checked(EncryptAll(pub, points, ts, cp)))
    IN  Encrypted(text_to_points(msg, cp))

RECURSIVE DecryptAll(_, _, _)
DecryptAll(pri, points, cp) ==
    IF points = <<>> THEN <<>>
    ELSE <<PrivateKeyDecrypt(pri, <<points[1], points[2]>>, cp)>>
            \o DecryptAll(pri, Tail(Tail(points)), cp)

decode_message_and_decrypt(pri, msg_base64, cp) ==
    LET k == Capacity(cp.cf)
        Text(decrypted) ==
            IF decrypted = VPANIC THEN SPANIC
            ELSE IF k = 0 /\ cp.cf.dbg THEN SPANIC
            ELSE points_to_text(decrypted, IF k = 0 THEN NLen(cp.cf) ELSE k - 1, cp)
        Decrypted(points) ==
            IF points = VPANIC THEN SPANIC
            ELSE IF Len(points) % 2 # 0 THEN SPANIC
            ELSE Text(Checked(DecryptAll(pri, points, cp)))
    IN  Decrypted(base64_to_points(msg_base64, cp))

\* ------------------------------------------------------------------ field.rs
\* Field<P>: a u64 value v with the modulus P a parameter of the type; the
\* arithmetic is done in i128 and cannot overflow.
ZpNew(p, P) == IF p < 0 THEN PANIC ELSE p % P

ZpAdd(a, b, P) == IF a < 0 \/ b < 0 THEN PANIC ELSE (a + b) % P

ZpMul(a, b, P) == IF a < 0 \/ b < 0 THEN PANIC ELSE (a * b) % P

ZpSub(a, b, P) == IF a < 0 \/ b < 0 THEN PANIC ELSE (a - b) % P

\* ops::Neg for Field: P - v, stored as it is.
ZpNeg(a, P) == IF a < 0 THEN PANIC ELSE P - a

RECURSIVE ZpPow(_, _, _)
ZpPow(a, p, P) ==
    IF a < 0 THEN PANIC
    ELSE IF p = 0 THEN ZpNew(1, P)
    ELSE IF p = 1 THEN a
    ELSE LET m == ZpPow(a, p \div 2, P)
             r == ZpPow(a, p % 2, P)
         IN  ZpMul(ZpMul(m, m, P), r, P)

ZpInvert(a, P) ==
    IF a < 0 THEN PANIC
    ELSE IF gcd(P, a) # 1 THEN PANIC
    ELSE ZpPow(a, P - 2, P)

ZpDiv(a, b, P) == ZpMul(a, ZpInvert(b, P), P)

ZpSqrt(a, P) ==
    IF a < 0 THEN PANIC
    ELSE IF ZpPow(a, (P - 1) \div 2, P) # ZpNew(1, P) THEN NONE
    ELSE IF P % 4 = 3 THEN ZpPow(a, (P + 1) \div 4, P)
    ELSE PANIC

\* -------------------------------------------------------------------- ecc.rs
\* The curve constants A, B and G, reduced modulo the model's modulus.
EccA(P) == ZpNew(CurveA, P)
EccB(P) == ZpNew(CurveB, P)
EccG(P) == <<ZpNew(GenX, P), ZpNew(GenY, P)>>

curve(x, y, P) ==
    ZpMul(y, y, P) = ZpAdd(ZpAdd(ZpMul(ZpMul(x, x, P), x, P), ZpMul(EccA(P), x, P), P),
                           EccB(P), P)

EccNew(x, y, P) ==
    IF x < 0 \/ y < 0 THEN PPANIC
    ELSE IF curve(x, y, P) THEN <<x, y>> ELSE PPANIC

EccFromX(x, P) ==
    LET y2 == ZpAdd(ZpAdd(ZpPow(x, 3, P), ZpMul(EccA(P), x, P), P), EccB(P), P)
        yres == ZpSqrt(y2, P)
    IN  IF yres = NONE THEN PNONE ELSE EccNew(x, yres, P)

\* ops::Add for Point
EccAdd(p, q, P) ==
    IF ~IsPoint(p) \/ ~IsPoint(q) THEN PPANIC
    ELSE LET x1 == p[1]
             y1 == p[2]
             x2 == q[1]
             y2 == q[2]
         IN  IF x1 = x2 /\ y1 # y2 THEN PPANIC
             ELSE LET l == IF p # q
                           THEN ZpDiv(ZpSub(y2, y1, P), ZpSub(x2, x1, P), P)
                           ELSE ZpDiv(ZpAdd(ZpMul(ZpMul(ZpNew(3, P), x1, P), x1, P),
                                            EccA(P), P),
                                      ZpMul(ZpNew(2, P), y1, P), P)
                      x3 == ZpSub(ZpSub(ZpMul(l, l, P), x1, P), x2, P)
                      y3 == ZpNeg(ZpAdd(ZpMul(l, ZpSub(x3, x1, P), P), y1, P), P)
                  IN  EccNew(x3, y3, P)

\* ops::Sub for Point
EccSub(p, q, P) ==
    IF ~IsPoint(p) \/ ~IsPoint(q) THEN PPANIC
    ELSE EccAdd(p, EccNew(q[1], ZpNeg(q[2], P), P), P)

\* ops::Mul<u128> for Point
RECURSIVE EccMul(_, _, _)
EccMul(p, rhs, P) ==
    IF ~IsPoint(p) THEN PPANIC
    ELSE IF ~(rhs > 0) THEN PPANIC
    ELSE IF rhs = 1 THEN p
    ELSE LET m1 == rhs \div 2
             pr == EccMul(p, m1, P)
         IN  IF rhs % 2 = 0 THEN EccAdd(pr, pr, P)
             ELSE EccAdd(EccAdd(pr, pr, P), p, P)

\* gen_keys: the public key of the drawn scalar pri.
EccGenKeys(pri, P) == EccMul(EccG(P), pri, P)

\* PublicKey::encrypt with the drawn scalar t: the pair <<c1, c2>>.
EccEncrypt(pub, msg, t, P) ==
    LET c1 == EccMul(EccG(P), t, P)
        c2 == EccAdd(EccMul(pub, t, P), msg, P)
    IN  IF ~IsPoint(c1) \/ ~IsPoint(c2) THEN <<PPANIC, PPANIC>> ELSE <<c1, c2>>

\* PrivateKey::decrypt
EccDecrypt(pri, c, P) == EccSub(c[2], EccMul(c[1], pri, P), P)

\* PublicKey::base64: the first eight bytes are those of x, and so are the
\* last eight.
PublicKeyBase64(pub) ==
    Base64Encode(ToLeBytes(pub[1], CoordLen) \o ToLeBytes(pub[1], CoordLen))

\* PublicKey::from_base64: decode, split at the eighth byte, reduce both
\* halves and validate the point; try_into fails on any other length.
PublicKeyFromBase64(base64, P) ==
    LET Read(bytes) ==
            IF bytes = SPANIC \/ Len(bytes) # 2 * CoordLen THEN PPANIC
            ELSE EccNew(ZpNew(FromLeBytes(SubSeq(bytes, 1, CoordLen)), P),
                        ZpNew(FromLeBytes(SubSeq(bytes, CoordLen + 1, Len(bytes))), P), P)
    IN  Read(Base64Decode(base64))

\* PrivateKey::base64
PrivateKeyBase64(pri) == Base64Encode(ToLeBytes(pri, ScalarLen))

\* PrivateKey::from_base64
PrivateKeyFromBase64(base64) ==
    LET Read(bytes) ==
            IF bytes = SPANIC \/ Len(bytes) # ScalarLen THEN PANIC
            ELSE FromLeBytes(bytes)
    IN  Read(Base64Decode(base64))

\* ------------------------------------------------------------ the harnesses
\* A harness whose tests are not the ones running.
Idle == [pc |-> "idle"]

Widths == 3..MaxWidth
Rems == 2..MaxRem
FieldCfgs == {FieldCfg(r, FieldWidth, d) : r \in Rems, d \in BOOLEAN}

\* The unit configuration of the test monoid Q.
QCfg == FieldCfg(1, FieldWidth, TRUE)

\* --- exponentiation: tests exp1..exp5 of algebra.rs, over Q and over ModField
AlgInputs ==
    {[tag |-> "QAdd", cfg |-> QCfg, x |-> x, n |-> n] : x \in 0..MaxQ, n \in 0..MaxN}
    \cup
    {i \in [tag : {"FAdd", "FMul"}, cfg : FieldCfgs, x : 0..MaxRem, n : 0..MaxN] :
        i.x < i.cfg.rem}

AlgInit ==
    /\ \E i \in AlgInputs :
          alg = [pc |-> "start", tag |-> i.tag, cfg |-> i.cfg, x |-> i.x, n |-> i.n,
                 res |-> NONE]
    /\ fld = Idle
    /\ sum = Idle
    /\ ecc = Idle
    /\ crv = Idle
    /\ cod = Idle
    /\ e2e = Idle

RawExp ==
    /\ alg.pc = "start"
    /\ alg' = [alg EXCEPT !.pc = "raw", !.res = Exp(alg.tag, alg.x, alg.n, alg.cfg)]
    /\ UNCHANGED <<fld, sum, ecc, crv, cod, e2e>>

MonExp ==
    /\ alg.pc = "start"
    /\ alg' = [alg EXCEPT !.pc = "monoid",
                          !.res = MonoidExp(alg.tag, alg.x, alg.n, alg.cfg)]
    /\ UNCHANGED <<fld, sum, ecc, crv, cod, e2e>>

AlgNext == RawExp \/ MonExp

SpecAlg == AlgInit /\ [][AlgNext]_vars
\* --- the recursion of the two generic exponentiation routines, call by call,
\* over the test monoid Q: CommutativeOp::exp of algebra.rs and
\* CommutativeMonoid::exp of groups.rs. stack holds the exponent of every call
\* that has not returned, the innermost last; a call stack holds MaxDepth
\* frames, and a call beyond them overflows it and aborts the process.
RecInit ==
    /\ \E r \in {"algebra", "groups"}, x \in 0..MaxQ, n \in 0..MaxN :
          alg = [pc |-> "call", routine |-> r, x |-> x, n |-> n, stack |-> <<n>>,
                 res |-> NONE]
    /\ fld = Idle
    /\ sum = Idle
    /\ ecc = Idle
    /\ crv = Idle
    /\ cod = Idle
    /\ e2e = Idle

\* The innermost call runs up to its recursive call or to its return.
\* algebra.rs: n = 0 panics, n = 1 returns self, otherwise self.exp(m, cfg)
\* with m = n / 2.  groups.rs: n = 0 returns the identity, n = 1 returns self,
\* otherwise self.exp(cfg, n).
RecCall ==
    /\ alg.pc = "call"
    /\ LET n == alg.stack[Len(alg.stack)]
       IN  IF n = 0
           THEN IF alg.routine = "algebra"
                THEN alg' = [alg EXCEPT !.pc = "panic", !.res = PANIC]
                ELSE alg' = [alg EXCEPT !.pc = "return", !.res = QIdentity]
           ELSE IF n = 1
           THEN alg' = [alg EXCEPT !.pc = "return", !.res = alg.x]
           ELSE IF Len(alg.stack) = MaxDepth
           THEN alg' = [alg EXCEPT !.pc = "overflow"]
           ELSE alg' = [alg EXCEPT !.stack =
                            Append(@, IF alg.routine = "algebra" THEN n \div 2 ELSE n)]
    /\ UNCHANGED <<fld, sum, ecc, crv, cod, e2e>>

\* The innermost call returns r to its caller, which combines it: algebra.rs
\* tests the parity of its n, groups.rs that of m = n / 2.
RecReturn ==
    /\ alg.pc = "return"
    /\ IF Len(alg.stack) = 1
       THEN alg' = [alg EXCEPT !.pc = "done", !.stack = <<>>]
       ELSE LET n == alg.stack[Len(alg.stack) - 1]
                r == alg.res
                even == IF alg.routine = "algebra" THEN n % 2 = 0 ELSE (n \div 2) % 2 = 0
            IN  alg' = [alg EXCEPT
                           !.stack = SubSeq(@, 1, Len(@) - 1),
                           !.res = IF even THEN QAddOp(r, r, QCfg)
                                   ELSE QAddOp(r, QAddOp(r, alg.x, QCfg), QCfg)]
    /\ UNCHANGED <<fld, sum, ecc, crv, cod, e2e>>

RecNext == RecCall \/ RecReturn

\* The processor keeps running the call.
SpecRec == RecInit /\ [][RecNext]_vars /\ WF_vars(RecNext)


\* --- overflow-safe addition: tests add_overflow1..6 of mod_field.rs
SumCfgs == {FieldCfg(r, w, d) : w \in Widths, r \in 1..(Pow2(MaxWidth) - 1), d \in BOOLEAN}

SumInit ==
    /\ \E c \in {k \in SumCfgs : k.rem <= k.max} :
       \E p \in 0..c.max, q \in 0..c.max :
          sum = [pc |-> "start", cfg |-> c, p |-> p, q |-> q,
                 a |-> NONE, b |-> NONE, res |-> NONE]
    /\ alg = Idle
    /\ fld = Idle
    /\ ecc = Idle
    /\ crv = Idle
    /\ cod = Idle
    /\ e2e = Idle

\* H::new(p, &cfg), H::new(q, &cfg)
SumNew ==
    /\ sum.pc = "start"
    /\ sum' = [sum EXCEPT !.pc = "built", !.a = FNew(sum.p, sum.cfg),
                          !.b = FNew(sum.q, sum.cfg)]
    /\ UNCHANGED <<alg, fld, ecc, crv, cod, e2e>>

\* H::add(a, b, &cfg)
SumAdd ==
    /\ sum.pc = "built"
    /\ sum' = [sum EXCEPT !.pc = "added", !.res = FAdd(sum.a, sum.b, sum.cfg)]
    /\ UNCHANGED <<alg, fld, ecc, crv, cod, e2e>>

SumNext == SumNew \/ SumAdd

SpecSum == SumInit /\ [][SumNext]_vars

\* --- field operations: any sequence of them.  The left operand of an
\* operation is the element the last operation returned (fld.res), the right
\* operand a freshly constructed element.
FldInit ==
    /\ \E c \in FieldCfgs :
          fld = [pc |-> "new", cfg |-> c, a |-> NONE, b |-> NONE, n |-> 0,
                 res |-> FZero(c)]
    /\ alg = Idle
    /\ sum = Idle
    /\ ecc = Idle
    /\ crv = Idle
    /\ cod = Idle
    /\ e2e = Idle

Call(pc, a, b, n, res) ==
    /\ fld' = [fld EXCEPT !.pc = pc, !.a = a, !.b = b, !.n = n, !.res = res]
    /\ UNCHANGED <<alg, sum, ecc, crv, cod, e2e>>

\* The element held: the last result, when the last call returned one.
Held == fld.res >= 0

FieldNew == \E p \in 0..fld.cfg.max : Call("new", NONE, NONE, p, FNew(p, fld.cfg))

FieldRandom == \E p \in 0..fld.cfg.max : Call("random", NONE, NONE, p, FRandom(p, fld.cfg))

FieldFromBytes ==
    \E p \in 0..fld.cfg.max : Call("from_bytes", NONE, NONE, p, FFromBytes(p, fld.cfg))

FieldAdd ==
    /\ Held
    /\ \E p \in 0..fld.cfg.max :
          LET b == FNew(p, fld.cfg) IN Call("add", fld.res, b, 0, FAdd(fld.res, b, fld.cfg))

FieldSub ==
    /\ Held
    /\ \E p \in 0..fld.cfg.max :
          LET b == FNew(p, fld.cfg) IN Call("sub", fld.res, b, 0, FSub(fld.res, b, fld.cfg))

FieldMul ==
    /\ Held
    /\ \E p \in 0..fld.cfg.max :
          LET b == FNew(p, fld.cfg) IN Call("mul", fld.res, b, 0, FMul(fld.res, b, fld.cfg))

FieldDiv ==
    /\ Held
    /\ \E p \in 0..fld.cfg.max :
          LET b == FNew(p, fld.cfg) IN Call("div", fld.res, b, 0, FDiv(fld.res, b, fld.cfg))

FieldNeg == Held /\ Call("neg", fld.res, NONE, 0, FNeg(fld.res, fld.cfg))

FieldReciprocal ==
    Held /\ Call("reciprocal", fld.res, NONE, 0, FReciprocal(fld.res, fld.cfg))

FieldPow ==
    /\ Held
    /\ \E n \in 0..MaxN : Call("pow", fld.res, NONE, n, FPow(fld.res, n, fld.cfg))

FieldSqrt == Held /\ Call("sqrt", fld.res, NONE, 0, FSqrt(fld.res, fld.cfg))

\* tests::div_circ: F::mul(F::div(a, b), b)
FieldDivCirc ==
    /\ Held
    /\ \E p \in 0..fld.cfg.max :
          LET b == FNew(p, fld.cfg)
          IN  Call("div_circ", fld.res, b, 0,
                   FMul(FDiv(fld.res, b, fld.cfg), b, fld.cfg))

\* tests::inv_circ: F::mul(a.reciprocal().unwrap(), a)
FieldInvCirc ==
    /\ Held
    /\ LET i == FReciprocal(fld.res, fld.cfg)
       IN  Call("inv_circ", fld.res, NONE, 0,
                IF i = NONE THEN PANIC ELSE FMul(i, fld.res, fld.cfg))

FldNext ==
    \/ FieldNew \/ FieldRandom \/ FieldFromBytes
    \/ FieldAdd \/ FieldSub \/ FieldMul \/ FieldDiv
    \/ FieldNeg \/ FieldReciprocal \/ FieldPow \/ FieldSqrt
    \/ FieldDivCirc \/ FieldInvCirc

SpecField == FldInit /\ [][FldNext]_vars

\* --- ElGamal over the curve of ecc.rs: tests::back_forth
EccMods == {p \in 7..MaxMod : p % 4 = 3 /\ \A d \in 2..(p - 1) : p % d # 0}

\* The on-curve points Point::new accepts, of reduced coordinates.
EccPoints(P) == {q \in (0..(P - 1)) \X (0..(P - 1)) : curve(q[1], q[2], P)}

EccInit ==
    /\ \E P \in EccMods : \E pri \in 0..MaxScalar, t \in 0..MaxScalar, msg \in EccPoints(P) :
          ecc = [pc |-> "start", P |-> P, pri |-> pri, t |-> t, msg |-> msg,
                 pub |-> PNONE, c |-> <<PNONE, PNONE>>, dec |-> PNONE,
                 text |-> Base64Encode(<<>>), pk |-> PNONE, sk |-> NONE]
    /\ alg = Idle
    /\ fld = Idle
    /\ sum = Idle
    /\ crv = Idle
    /\ cod = Idle
    /\ e2e = Idle

\* let (pr, pb) = gen_keys(&mut gen)
EccKeys ==
    /\ ecc.pc = "start"
    /\ LET pub == EccGenKeys(ecc.pri, ecc.P)
       IN  ecc' = [ecc EXCEPT !.pc = IF IsPoint(pub) THEN "keys" ELSE "panic", !.pub = pub]
    /\ UNCHANGED <<alg, fld, sum, crv, cod, e2e>>

\* let encrypted = pb.encrypt(msg, &mut gen)
EccEnc ==
    /\ ecc.pc = "keys"
    /\ LET c == EccEncrypt(ecc.pub, ecc.msg, ecc.t, ecc.P)
       IN  ecc' = [ecc EXCEPT !.pc = IF IsPoint(c[1]) THEN "encrypted" ELSE "panic", !.c = c]
    /\ UNCHANGED <<alg, fld, sum, crv, cod, e2e>>

\* let decrypted = pr.decrypt(encrypted)
EccDec ==
    /\ ecc.pc = "encrypted"
    /\ LET d == EccDecrypt(ecc.pri, ecc.c, ecc.P)
       IN  ecc' = [ecc EXCEPT !.pc = IF IsPoint(d) THEN "decrypted" ELSE "panic", !.dec = d]
    /\ UNCHANGED <<alg, fld, sum, crv, cod, e2e>>

\* PublicKey::from_base64(&pb.base64())
EccPubTransport ==
    /\ ecc.pc = "keys"
    /\ ecc' = [ecc EXCEPT !.pc = "pub_transported",
                          !.text = PublicKeyBase64(ecc.pub),
                          !.pk = PublicKeyFromBase64(PublicKeyBase64(ecc.pub), ecc.P)]
    /\ UNCHANGED <<alg, fld, sum, crv, cod, e2e>>

\* PrivateKey::from_base64(&pr.base64())
EccPriTransport ==
    /\ ecc.pc = "keys"
    /\ ecc' = [ecc EXCEPT !.pc = "pri_transported",
                          !.text = PrivateKeyBase64(ecc.pri),
                          !.sk = PrivateKeyFromBase64(PrivateKeyBase64(ecc.pri))]
    /\ UNCHANGED <<alg, fld, sum, crv, cod, e2e>>

EccNext == EccKeys \/ EccEnc \/ EccDec \/ EccPubTransport \/ EccPriTransport

SpecEcc == EccInit /\ [][EccNext]_vars

\* --- the point group over a one-byte field: tests of points_group.rs
ByteFieldCfg(rem, len, dbg) == [rem |-> rem, max |-> RadixPow(len) - 1, dbg |-> dbg]

\* tests::cfg / tests::config: the curve y^2 = x^3 + 100 x + 1 with the
\* generator (2500, 125001), over the field configuration cf.
TestCfg(cf) ==
    PointCfg(PNewUnsafe(FNew(GenX, cf), FNew(GenY, cf)), FNew(CurveA, cf), FNew(CurveB, cf),
             cf)

CrvCfgs == {TestCfg(ByteFieldCfg(r, 1, d)) : r \in EccMods, d \in BOOLEAN}

\* The bytes from_bytes and base64_to_points are fed: the smallest and the
\* largest of a reduced coordinate, the modulus and the largest byte.
CrvBytes(cf) == {0, 1, cf.rem - 1, cf.rem, cf.max}

RECURSIVE ByteSeqs(_, _)
ByteSeqs(bytes, n) ==
    IF n = 0 THEN {<<>>}
    ELSE LET shorter == ByteSeqs(bytes, n - 1)
         IN  shorter \cup {<<b>> \o t : b \in bytes, t \in {u \in shorter : Len(u) = n - 1}}

CrvInit ==
    /\ \E cp \in CrvCfgs : crv = [pc |-> "g", cp |-> cp, args |-> <<>>, pts |-> <<cp.g>>]
    /\ alg = Idle
    /\ fld = Idle
    /\ sum = Idle
    /\ ecc = Idle
    /\ cod = Idle
    /\ e2e = Idle

\* A call returns: args are the field elements and points it was given, pts
\* the points it returned.
Returned(pc, args, pts) ==
    /\ crv' = [crv EXCEPT !.pc = pc, !.args = args, !.pts = pts]
    /\ UNCHANGED <<alg, fld, sum, ecc, cod, e2e>>

\* The point held: the one point the last call returned.
HeldPoint == Len(crv.pts) = 1 /\ IsPoint(crv.pts[1])

\* Point::new is given any two field elements: the reduced ones, and the
\* unreduced ones from_bytes stores, of which the modulus and the largest
\* byte are drawn.
CrvNew ==
    \E x \in (0..crv.cp.cf.rem) \cup {crv.cp.cf.max},
       y \in (0..crv.cp.cf.rem) \cup {crv.cp.cf.max} :
        Returned("new", <<x, y>>, <<PNew(x, y, crv.cp)>>)

CrvFromX ==
    \E x \in 0..crv.cp.cf.rem : Returned("from_x", <<FNew(x, crv.cp.cf)>>, <<PFromX(FNew(x, crv.cp.cf), crv.cp)>>)

CrvRandom ==
    \E drawn \in 0..crv.cp.cf.max :
        LET Drawn(p) == p # PNONE /\ Returned("random", <<>>, <<p>>)
        IN  Drawn(PRandom(drawn, crv.cp))

CrvOp ==
    /\ HeldPoint
    /\ \E x \in 0..crv.cp.cf.rem :
          LET With(q) ==
                  /\ IsPoint(q)
                  /\ Returned("op", <<crv.pts[1], q>>, <<POp(crv.pts[1], q, crv.cp)>>)
          IN  With(PFromX(FNew(x, crv.cp.cf), crv.cp))

CrvExp ==
    /\ HeldPoint
    /\ \E n \in 0..MaxScalar :
          Returned("exp", <<crv.pts[1], n>>, <<PExp(crv.pts[1], n, crv.cp)>>)

CrvInv == HeldPoint /\ Returned("inv", <<>>, <<PInv(crv.pts[1], crv.cp)>>)

CrvFromBytes ==
    \E bs \in ByteSeqs(CrvBytes(crv.cp.cf), PLen(crv.cp)) :
        /\ Len(bs) = PLen(crv.cp)
        /\ Returned("from_bytes", <<>>, <<PFromBytes(bs, crv.cp)>>)

CrvBase64 ==
    \/ Returned("base64_to_points", <<>>, base64_to_points([ok |-> FALSE, bytes |-> <<>>], crv.cp))
    \/ \E bs \in ByteSeqs(CrvBytes(crv.cp.cf), MaxCrvPts * PLen(crv.cp)) :
          Returned("base64_to_points", <<>>, base64_to_points(Base64Encode(bs), crv.cp))

CrvNext ==
    \/ CrvNew \/ CrvFromX \/ CrvRandom \/ CrvOp \/ CrvExp \/ CrvInv
    \/ CrvFromBytes \/ CrvBase64

SpecCurve == CrvInit /\ [][CrvNext]_vars

\* --- the codec: tests::text2points2text
\* The modulus of the codec's field: the least prime p = 3 (mod 4) that holds
\* three whole bytes, as the modulus 0x14_4C3B_27FF of the tests holds four.
Prime3(p) ==
    /\ p % 4 = 3
    /\ \A d \in 2..RadixPow(3) : d * d > p \/ p % d # 0
RECURSIVE NextPrime3(_)
NextPrime3(p) == IF Prime3(p) THEN p ELSE NextPrime3(p + 1)
CodecRem == NextPrime3(ByteRadix * ByteRadix * ByteRadix)

CodecCfg(dbg) == TestCfg(ByteFieldCfg(CodecRem, FieldLen, dbg))

TextBytes == {b \in 1..(ByteRadix - 1) : b <= MaxByteKinds \/ b = ByteRadix - 1}
\* The texts: those without a zero byte, and those of the bytes 0 and 1.
Texts == ByteSeqs(TextBytes, MaxTextLen) \cup ByteSeqs({0, 1}, MaxTextLen)

CodInit ==
    /\ \E d \in BOOLEAN, text \in Texts :
          cod = [pc |-> "start", cp |-> CodecCfg(d), text |-> text, points |-> <<>>,
                 text2 |-> <<>>]
    /\ alg = Idle
    /\ fld = Idle
    /\ sum = Idle
    /\ ecc = Idle
    /\ crv = Idle
    /\ e2e = Idle

\* let points = text_to_points::<_, u64>(text, &cfg_group)
CodEncode ==
    /\ cod.pc = "start"
    /\ LET points == text_to_points(cod.text, cod.cp)
       IN  cod' = [cod EXCEPT !.pc = IF points = VPANIC \/ points = VHANG
                                     THEN "failed" ELSE "points",
                              !.points = points]
    /\ UNCHANGED <<alg, fld, sum, ecc, crv, e2e>>

\* let text2 = points_to_text(points.iter().copied(), capacity - 1)
CodDecode ==
    /\ cod.pc = "points"
    /\ cod' = [cod EXCEPT !.pc = "text",
                          !.text2 = points_to_text(cod.points, Capacity(cod.cp.cf) - 1,
                                                   cod.cp)]
    /\ UNCHANGED <<alg, fld, sum, ecc, crv, e2e>>

CodNext == CodEncode \/ CodDecode

SpecCodec == CodInit /\ [][CodNext]_vars

\* --- the codec over field configurations of every capacity: the least prime
\* p = 3 (mod 4) of each byte length, in a natural type of FieldLen bytes and
\* in one of a byte more
ChunkCfgs ==
    {cp \in {TestCfg(ByteFieldCfg(NextPrime3(RadixPow(k)), len, d)) :
                k \in 0..FieldLen, len \in {FieldLen, FieldLen + 1}, d \in BOOLEAN} :
        cp.cf.rem <= cp.cf.max}

ChunkInit ==
    /\ \E cp \in ChunkCfgs, text \in ByteSeqs({1, ByteRadix - 1}, MaxTextLen) :
          cod = [pc |-> "start", cp |-> cp, text |-> text, points |-> <<>>, text2 |-> <<>>]
    /\ alg = Idle
    /\ fld = Idle
    /\ sum = Idle
    /\ ecc = Idle
    /\ crv = Idle
    /\ e2e = Idle

SpecChunk == ChunkInit /\ [][CodNext]_vars

\* --- end to end: tests::encrypt_encode_decode_decrypt, in the checked build
\* the tests run in
E2eBytes == {1, ByteRadix - 1}
E2eTexts == ByteSeqs(E2eBytes, MaxE2eLen)
E2eScalars == 0..MaxE2eScalar

\* The number of points of a text: one for each chunk.
EffLen(cp) == Min(Capacity(cp.cf), NLen(cp.cf) - 1) - 1
NumChunks(text, cp) == (Len(text) + EffLen(cp) - 1) \div EffLen(cp)

E2eInit ==
    /\ \E text \in E2eTexts, pri \in E2eScalars :
       \E ts \in [1..NumChunks(text, CodecCfg(TRUE)) -> E2eScalars] :
          e2e = [pc |-> "start", cp |-> CodecCfg(TRUE), text |-> text, pri |-> pri, ts |-> ts,
                 pub |-> PNONE, secret |-> Base64Encode(<<>>), decoded |-> <<>>]
    /\ alg = Idle
    /\ fld = Idle
    /\ sum = Idle
    /\ ecc = Idle
    /\ crv = Idle
    /\ cod = Idle

\* let (pr, pb) = gen_keys(&mut gen, &cfg_group)
E2eKeys ==
    /\ e2e.pc = "start"
    /\ LET Got(pub) ==
               e2e' = [e2e EXCEPT !.pc = IF IsPoint(pub) THEN "keys" ELSE "panic",
                                  !.pub = pub]
       IN  Got(gen_keys(e2e.pri, e2e.cp))
    /\ UNCHANGED <<alg, fld, sum, ecc, crv, cod>>

\* let secret = encrypt_message_and_encode(pb, text, &mut gen, &cfg_group)
E2eEncrypt ==
    /\ e2e.pc = "keys"
    /\ LET Got(secret) ==
               e2e' = [e2e EXCEPT !.pc = IF secret.ok THEN "encrypted" ELSE "panic",
                                  !.secret = secret]
       IN  Got(encrypt_message_and_encode(e2e.pub, e2e.text, e2e.ts, e2e.cp))
    /\ UNCHANGED <<alg, fld, sum, ecc, crv, cod>>

\* let decoded = decode_message_and_decrypt(pr, &secret, &cfg_group)
E2eDecrypt ==
    /\ e2e.pc = "encrypted"
    /\ LET Got(decoded) ==
               e2e' = [e2e EXCEPT !.pc = IF decoded = SPANIC THEN "panic" ELSE "decoded",
                                  !.decoded = decoded]
       IN  Got(decode_message_and_decrypt(e2e.pri, e2e.secret, e2e.cp))
    /\ UNCHANGED <<alg, fld, sum, ecc, crv, cod>>

E2eNext == E2eKeys \/ E2eEncrypt \/ E2eDecrypt

SpecE2e == E2eInit /\ [][E2eNext]_vars

\* ------------------------------------------------------------------ claims
\* Reference arithmetic over the unbounded integers, for the claims only.
Divides(d, n) == n % d = 0
IsPrime(p) == p >= 2 /\ \A d \in 2..(p - 1) : ~Divides(d, p)
Coprime(a, b) == \A d \in 2..(IF a > b THEN a ELSE b) : ~(Divides(d, a) /\ Divides(d, b))
RECURSIVE PowMod(_, _, _)
PowMod(v, e, m) == IF e = 0 THEN 1 % m ELSE (v * PowMod(v, e - 1, m)) % m
\* The n-fold combination op(x, op(x, ... x)) of n copies of x, n >= 1.
RECURSIVE NFold(_, _, _, _)
NFold(tag, x, n, c) == IF n = 1 THEN x ELSE Op(tag, x, NFold(tag, x, n - 1, c), c)

\* C4 (as claimed): every field element an operation returns has its stored
\* value in [0, modulus).
C4_RangeInvariant == fld.pc # "idle" /\ fld.res >= 0 => fld.res < fld.cfg.rem

\* C6: for reduced a and b the addition returns (a + b) mod rem as computed
\* over the unbounded integers, in a checked build as in an unchecked one, and
\* the sum r1 + r2 of the overflow branch stays within the natural type.
C6_AddNoOverflow ==
    sum.pc = "added" =>
        /\ sum.res = (sum.a + sum.b) % sum.cfg.rem
        /\ sum.a + sum.b > sum.cfg.max =>
              (sum.cfg.max % sum.cfg.rem)
                + ((sum.b - (sum.cfg.max - sum.a)) % sum.cfg.rem) <= sum.cfg.max

\* C6 witness: an addition whose raw sum exceeds the type's maximum, in a
\* checked build.
C6_Witness ==
    /\ sum.pc = "added"
    /\ sum.cfg.dbg
    /\ sum.a + sum.b > sum.cfg.max
    /\ sum.res = (sum.a + sum.b) % sum.cfg.rem

\* C7: for n >= 1 the raw exponentiation returns the n-fold combination of x
\* (n * x in the additive test monoid).
C7_ExpIsNFold ==
    alg.pc = "raw" /\ alg.n >= 1 =>
        /\ alg.res = NFold(alg.tag, alg.x, alg.n, alg.cfg)
        /\ alg.tag = "QAdd" => alg.res = alg.n * alg.x

\* C7 witness: exp(7, 9) == 63 in the test monoid.
C7_Witness ==
    alg.pc = "raw" /\ alg.tag = "QAdd" /\ alg.x = 7 /\ alg.n = 9 /\ alg.res = 63

\* C8: the raw exponentiation by zero fails and returns nothing; the monoid's
\* returns the identity for zero and what the raw one returns for n >= 1.
C8_ExpZero ==
    /\ alg.pc = "raw" /\ alg.n = 0 => alg.res = PANIC
    /\ alg.pc = "monoid" /\ alg.n = 0 => alg.res = Identity(alg.tag, alg.cfg)
    /\ alg.pc = "monoid" /\ alg.n >= 1 => alg.res = Exp(alg.tag, alg.x, alg.n, alg.cfg)

\* C8 witness: the monoid-level exp(7, 0) == 1234 of the test monoid.
C8_Witness ==
    alg.pc = "monoid" /\ alg.tag = "QAdd" /\ alg.x = 7 /\ alg.n = 0 /\ alg.res = QIdentity

\* C9 (as claimed): modulo a prime, for every field element a the program
\* holds and every invertible b, mul(div(a, b), b) == a, and
\* reciprocal(a) * a == one for an invertible a.
C9_DivCirc ==
    /\ fld.pc = "div_circ" /\ IsPrime(fld.cfg.rem)
         /\ Coprime(fld.cfg.rem, fld.b) /\ fld.b # 0
         => fld.res = fld.a
    /\ fld.pc = "inv_circ" /\ IsPrime(fld.cfg.rem)
         /\ Coprime(fld.cfg.rem, fld.a) /\ fld.a # 0
         => fld.res = 1

\* C9, of the elements whose stored value is reduced: the round trip holds.
C9_DivCircReduced ==
    /\ fld.pc = "div_circ" /\ IsPrime(fld.cfg.rem) /\ fld.a < fld.cfg.rem
         /\ Coprime(fld.cfg.rem, fld.b) /\ fld.b # 0
         => fld.res = fld.a
    /\ fld.pc = "inv_circ" /\ IsPrime(fld.cfg.rem) /\ fld.a < fld.cfg.rem
         /\ fld.a # 0
         => fld.res = 1

\* C10: the inverse of a field element v is None exactly when gcd(rem, v) # 1
\* and Some(v^(rem-2)) otherwise (the power taken modulo rem, and stored
\* reduced when v is); a division by a non-invertible v fails fatally.
C10_Inverse ==
    /\ fld.pc = "reciprocal" =>
          IF fld.a = 0 \/ ~Coprime(fld.cfg.rem, fld.a)
          THEN fld.res = NONE
          ELSE /\ fld.res >= 0
               /\ fld.res % fld.cfg.rem
                     = PowMod(fld.a % fld.cfg.rem, fld.cfg.rem - 2, fld.cfg.rem)
               /\ fld.a < fld.cfg.rem => fld.res < fld.cfg.rem
    /\ fld.pc = "div" /\ (fld.b = 0 \/ ~Coprime(fld.cfg.rem, fld.b)) => fld.res = PANIC

\* C10 witness: a non-zero element that shares a factor with the modulus has
\* no inverse.
C10_Witness ==
    /\ fld.pc = "reciprocal" /\ fld.a # 0 /\ fld.a < fld.cfg.rem
    /\ ~Coprime(fld.cfg.rem, fld.a) /\ fld.res = NONE

\* C1 (as claimed, of the round trips that complete): for every scalar pri,
\* every on-curve message and every ephemeral scalar t, the decrypted point
\* is exactly the message.
C1_ReturnsMsg == ecc.pc = "decrypted" => ecc.dec = ecc.msg

\* The curve equation over the integers, modulo the field's modulus.
OnCurve(p, cp) ==
    (p[2] * p[2]) % cp.cf.rem
        = (p[1] * p[1] * p[1] + cp.a * p[1] + cp.b) % cp.cf.rem

\* C5 (as claimed): every point an operation returns, from_bytes and
\* base64_to_points on arbitrary bytes included, satisfies y^2 = x^3 + a*x + b.
C5_OnCurve ==
    crv.pc # "idle" =>
        \A i \in 1..Len(crv.pts) : IsPoint(crv.pts[i]) => OnCurve(crv.pts[i], crv.cp)

\* C2: for every text without a zero byte, of any length, text_to_points
\* returns and points_to_text(text_to_points(s), capacity - 1) is s.
C2_CodecRoundTrip ==
    (\A i \in 1..Len(cod.text) : cod.text[i] # 0) =>
        /\ cod.pc # "failed"
        /\ cod.pc = "text" => cod.text2 = cod.text

\* C2 witness: a text whose last chunk is short and one of whose chunks needed
\* the trial byte raised, read back as it was.
C2_Witness ==
    /\ cod.pc = "text"
    /\ Len(cod.text) % EffLen(cod.cp) # 0
    /\ Len(cod.points) > 1
    /\ \E i \in 1..Len(cod.points) :
          FToBytes(cod.points[i][1], cod.cp.cf)[EffLen(cod.cp) + 1] > 0
    /\ cod.text2 = cod.text

C11_SubCirc ==
    [][fld.pc = "sub" /\ fld.res >= 0 /\ fld'.pc = "add" /\ fld'.b = fld.b
         => fld'.res = fld.a]_vars

\* C11, of the elements whose stored value is reduced: the round trip holds,
\* b = zero and sums beyond the natural type's maximum included.
C11_SubCircReduced ==
    [][fld.pc = "sub" /\ fld.a < fld.cfg.rem /\ fld'.pc = "add" /\ fld'.b = fld.b
         => fld'.res = fld.a]_vars

\* C12: for every modulus rem and all a, b in [0, rem), b = 0 and b = 1
\* included, mul(a, b) equals (a * b) mod rem over the unbounded integers, in
\* a checked build as in an unchecked one.
C12_MulIsProduct ==
    fld.pc = "mul" /\ fld.a < fld.cfg.rem /\ fld.b < fld.cfg.rem
        => fld.res = (fld.a * fld.b) % fld.cfg.rem

\* C12 witness: a product that exceeds the natural type's maximum, in a
\* checked build.
C12_Witness ==
    /\ fld.pc = "mul" /\ fld.cfg.dbg
    /\ fld.a < fld.cfg.rem /\ fld.b < fld.cfg.rem
    /\ fld.a * fld.b > fld.cfg.max
    /\ fld.res = (fld.a * fld.b) % fld.cfg.rem

\* C13 (as claimed): for every field element a, zero included, neg(a) is the
\* field element new(rem - a), the reduced representative of -a.
C13_NegIsReduced ==
    fld.pc = "neg" /\ fld.a < fld.cfg.rem => fld.res = (fld.cfg.rem - fld.a) % fld.cfg.rem

\* C14 (as claimed): modulo a prime rem with rem mod 4 = 3, for every field
\* element v the program holds, sqrt(v) is None when v^((rem-1)/2) is not
\* one, and otherwise Some(r) with r = v^((rem+1)/4) and r * r == v.
C14_Sqrt ==
    fld.pc = "sqrt" /\ IsPrime(fld.cfg.rem) /\ fld.cfg.rem % 4 = 3 =>
        IF PowMod(fld.a % fld.cfg.rem, (fld.cfg.rem - 1) \div 2, fld.cfg.rem) # 1
        THEN fld.res = NONE
        ELSE /\ fld.res = PowMod(fld.a % fld.cfg.rem, (fld.cfg.rem + 1) \div 4, fld.cfg.rem)
             /\ FMul(fld.res, fld.res, fld.cfg) = fld.a

\* C14, of the elements whose stored value is reduced: the root is returned
\* exactly for the non-zero squares, and it squares to v.
C14_SqrtReduced ==
    fld.pc = "sqrt" /\ IsPrime(fld.cfg.rem) /\ fld.cfg.rem % 4 = 3
                    /\ fld.a < fld.cfg.rem =>
        IF PowMod(fld.a, (fld.cfg.rem - 1) \div 2, fld.cfg.rem) # 1
        THEN fld.res = NONE
        ELSE /\ fld.res = PowMod(fld.a, (fld.cfg.rem + 1) \div 4, fld.cfg.rem)
             /\ (fld.res * fld.res) % fld.cfg.rem = fld.a

\* The group law over the integers modulo the prime r, for the claims only:
\* the chord's or the tangent's slope, and the third point.
RefSlope(p, q, a, r) ==
    IF p # q
    THEN ((q[2] - p[2]) * PowMod((q[1] - p[1]) % r, r - 2, r)) % r
    ELSE ((3 * p[1] * p[1] + a) * PowMod((2 * p[2]) % r, r - 2, r)) % r
RefX3(p, q, l, r) == (l * l - p[1] - q[1]) % r
RefOp(p, q, a, r) ==
    LET l == RefSlope(p, q, a, r)
        x3 == RefX3(p, q, l, r)
    IN  <<x3, (0 - (l * (x3 - p[1]) + p[2])) % r>>

\* C15 (as claimed): for any two on-curve points a and b that do not have
\* x1 == x2 and y1 # y2, op(a, b) returns, and returns the on-curve point
\* (x3, y3) of the group law.
C15_GroupLaw ==
    crv.pc = "op" /\ OnCurve(crv.args[1], crv.cp) /\ OnCurve(crv.args[2], crv.cp)
                  /\ ~(crv.args[1][1] = crv.args[2][1] /\ crv.args[1][2] # crv.args[2][2])
        => /\ IsPoint(crv.pts[1])
           /\ crv.pts[1] = RefOp(crv.args[1], crv.args[2], crv.cp.a, crv.cp.cf.rem)
           /\ OnCurve(crv.pts[1], crv.cp)

\* A point of reduced coordinates.
ReducedPoint(p, cp) == p[1] < cp.cf.rem /\ p[2] < cp.cf.rem

\* C15, of what holds: when op returns a point for two on-curve points of
\* reduced coordinates, the point is on the curve and its coordinates are
\* those of the group law modulo rem.
C15_GroupLawModRem ==
    crv.pc = "op" /\ OnCurve(crv.args[1], crv.cp) /\ OnCurve(crv.args[2], crv.cp)
                  /\ ReducedPoint(crv.args[1], crv.cp) /\ ReducedPoint(crv.args[2], crv.cp)
                  /\ IsPoint(crv.pts[1])
        => /\ OnCurve(crv.pts[1], crv.cp)
           /\ <<crv.pts[1][1] % crv.cp.cf.rem, crv.pts[1][2] % crv.cp.cf.rem>>
                 = RefOp(crv.args[1], crv.args[2], crv.cp.a, crv.cp.cf.rem)

\* C16: Point::new(x, y, cfg) returns the point (x, y) when
\* y^2 = x^3 + a*x + b holds modulo the field's modulus, and panics for every
\* pair that does not satisfy the equation; unreduced elements included.
C16_ValidatedNew ==
    crv.pc = "new" =>
        IF OnCurve(<<crv.args[1], crv.args[2]>>, crv.cp)
        THEN crv.pts[1] = <<crv.args[1], crv.args[2]>>
        ELSE crv.pts[1] = PPANIC

\* Point::new has returned a point other than the generator, of a nonzero y.
C16_Witness ==
    /\ crv.pc = "new"
    /\ crv.pts[1] = <<crv.args[1], crv.args[2]>>
    /\ crv.pts[1] # crv.cp.g
    /\ crv.args[2] % crv.cp.cf.rem # 0
\* The right-hand side of the curve equation over the integers, modulo rem.
RefRhs(x, cp) == (x * x * x + cp.a * x + cp.b) % cp.cf.rem

\* v has a square root in the field.
HasRoot(v, cp) == \E r \in 0..(cp.cf.rem - 1) : (r * r) % cp.cf.rem = v

\* C17 (as claimed): for every field element x, from_x(x) is Some(p) with
\* p.x = x and p on the curve whenever x^3 + a*x + b has a square root, the
\* root 0 included, and None only if it has none.
C17_FromX ==
    crv.pc = "from_x" =>
        IF HasRoot(RefRhs(crv.args[1], crv.cp), crv.cp)
        THEN /\ IsPoint(crv.pts[1])
             /\ crv.pts[1][1] = crv.args[1]
             /\ OnCurve(crv.pts[1], crv.cp)
        ELSE crv.pts[1] = PNONE

\* C17, of what holds: from_x(x) is None when x^3 + a*x + b is zero or has no
\* square root, and otherwise Some(p) with p.x = x and p on the curve.
C17_FromXNonzero ==
    crv.pc = "from_x" =>
        IF RefRhs(crv.args[1], crv.cp) # 0 /\ HasRoot(RefRhs(crv.args[1], crv.cp), crv.cp)
        THEN /\ IsPoint(crv.pts[1])
             /\ crv.pts[1][1] = crv.args[1]
             /\ OnCurve(crv.pts[1], crv.cp)
        ELSE crv.pts[1] = PNONE
\* C18 (as claimed): for every public key pk,
\* PublicKey::from_base64(pk.base64()) returns the same point, the bytes being
\* those of x followed by those of y; for every private key sk,
\* PrivateKey::from_base64(sk.base64()) returns the same scalar.
C18_KeyTransport ==
    /\ ecc.pc = "pub_transported" =>
           /\ ecc.pk = ecc.pub
           /\ Base64Decode(ecc.text)
                 = ToLeBytes(ecc.pub[1], CoordLen) \o ToLeBytes(ecc.pub[2], CoordLen)
    /\ ecc.pc = "pri_transported" => ecc.sk = ecc.pri

\* C18, of what holds: the private key's round trip returns the same scalar,
\* and the public key's bytes are those of x twice, which from_base64 reads
\* back as Point::new(x, x).
C18_KeyTransportAsCoded ==
    /\ ecc.pc = "pub_transported" =>
           /\ ecc.pk = EccNew(ecc.pub[1], ecc.pub[1], ecc.P)
           /\ Base64Decode(ecc.text)
                 = ToLeBytes(ecc.pub[1], CoordLen) \o ToLeBytes(ecc.pub[1], CoordLen)
    /\ ecc.pc = "pri_transported" => ecc.sk = ecc.pri
\* C19: for a plaintext of k chunks, the bytes encrypt_message_and_encode
\* emits are those of 2k points in the order c1, c2 of chunk 1, c1, c2 of
\* chunk 2, ..., each point the little-endian bytes of x followed by those
\* of y, NLen bytes for each coordinate; decode_message_and_decrypt reads the
\* same points back, pairs the consecutive ones in that order, and the points
\* read serialize to the same bytes.
C19_WireLayout ==
    /\ e2e.pc \in {"encrypted", "decoded"} =>
           LET n == NLen(e2e.cp.cf)
               Laid(points) ==
                   /\ Len(e2e.secret.bytes) = 2 * Len(points) * (2 * n)
                   /\ \A i \in 1..Len(points) :
                          LET At(c) ==
                                  \A j \in 1..2, k \in 1..2, b \in 1..n :
                                      e2e.secret.bytes[((i - 1) * 2 + (j - 1)) * (2 * n)
                                                          + (k - 1) * n + b]
                                          = (c[j][k] \div RadixPow(b - 1)) % ByteRadix
                          IN  At(PublicKeyEncrypt(e2e.pub, points[i], e2e.ts[i], e2e.cp))
           IN  Laid(text_to_points(e2e.text, e2e.cp))
    /\ e2e.pc = "decoded" =>
           LET Paired(pts) ==
                   /\ AllBytes(pts, e2e.cp) = e2e.secret.bytes
                   /\ e2e.decoded
                         = points_to_text(
                               [i \in 1..(Len(pts) \div 2) |->
                                   PrivateKeyDecrypt(e2e.pri, <<pts[2 * i - 1], pts[2 * i]>>,
                                                     e2e.cp)],
                               Capacity(e2e.cp.cf) - 1, e2e.cp)
           IN  Paired(base64_to_points(e2e.secret, e2e.cp))

\* A text of two chunks has been encrypted to four points with two different
\* scalars, and decrypted.
C19_Witness ==
    /\ e2e.pc = "decoded"
    /\ NumChunks(e2e.text, e2e.cp) = 2
    /\ Len(e2e.secret.bytes) = 4 * PLen(e2e.cp)
    /\ e2e.ts[1] # e2e.ts[2]
    /\ SubSeq(e2e.secret.bytes, 1, PLen(e2e.cp))
          # SubSeq(e2e.secret.bytes, PLen(e2e.cp) + 1, 2 * PLen(e2e.cp))
\* The bytes of s before its first zero byte.
RECURSIVE BeforeZero(_)
BeforeZero(s) ==
    IF s = <<>> THEN <<>>
    ELSE IF s[1] = 0 THEN <<>>
    ELSE <<s[1]>> \o BeforeZero(Tail(s))

\* The text cut into chunks of eff bytes, each chunk truncated at its first
\* zero byte.
RECURSIVE ChunksBeforeZero(_, _)
ChunksBeforeZero(s, eff) ==
    IF s = <<>> THEN <<>>
    ELSE BeforeZero(SubSeq(s, 1, Min(eff, Len(s))))
            \o ChunksBeforeZero(SubSeq(s, Min(eff, Len(s)) + 1, Len(s)), eff)

HasZero(s) == \E i \in 1..Len(s) : s[i] = 0

C22_HalvingTerminates ==
    /\ [][alg.pc = "call" /\ Len(alg'.stack) > Len(alg.stack)
             => alg'.stack[Len(alg'.stack)] = alg.stack[Len(alg.stack)] \div 2]_vars
    /\ <>(alg.n < 2 \/ alg.pc = "done")

\* C22, of what holds: CommutativeOp::exp of algebra.rs calls itself on the
\* halved exponent and returns n * x for every n >= 1; CommutativeMonoid::exp
\* of groups.rs calls itself on the same n and, for n >= 2, overflows the stack.
C22_AlgebraHalvesGroupsOverflows ==
    /\ [][alg.pc = "call" /\ Len(alg'.stack) > Len(alg.stack)
             => alg'.stack[Len(alg'.stack)]
                  = (IF alg.routine = "algebra" THEN alg.stack[Len(alg.stack)] \div 2
                     ELSE alg.stack[Len(alg.stack)])]_vars
    /\ <>(\/ alg.routine = "algebra" /\ alg.n = 0 /\ alg.pc = "panic"
          \/ alg.routine = "algebra" /\ alg.n >= 1 /\ alg.pc = "done"
                /\ alg.res = alg.n * alg.x
          \/ alg.routine = "groups" /\ alg.n < 2 /\ alg.pc = "done"
          \/ alg.routine = "groups" /\ alg.n >= 2 /\ alg.pc = "overflow")
RefInfinity == <<>>
RefSum(p, q, a, r) ==
    IF p = RefInfinity THEN q
    ELSE IF q = RefInfinity THEN p
    ELSE IF p[1] = q[1] /\ (p[2] + q[2]) % r = 0 THEN RefInfinity
    ELSE RefOp(p, q, a, r)
RECURSIVE RefTimes(_, _, _, _)
RefTimes(p, n, a, r) ==
    IF n = 0 THEN RefInfinity ELSE RefSum(RefTimes(p, n - 1, a, r), p, a, r)

\* C24 (as claimed): for every on-curve point P and every n >= 1 whose n * P
\* is a finite point, exp(P, n) returns, and returns n * P.  The coordinates
\* are compared modulo rem.
C24_ExpTotal ==
    LET P == crv.args[1]
        n == crv.args[2]
        nP == RefTimes(P, n, crv.cp.a, crv.cp.cf.rem)
    IN  crv.pc = "exp" /\ OnCurve(P, crv.cp) /\ ReducedPoint(P, crv.cp) /\ n >= 1
                       /\ nP # RefInfinity
            => /\ IsPoint(crv.pts[1])
               /\ <<crv.pts[1][1] % crv.cp.cf.rem, crv.pts[1][2] % crv.cp.cf.rem>> = nP

\* C24, of what holds: whenever exp(P, n) returns a point, n * P is finite and
\* the point is n * P modulo rem; it returns one whenever no sum of the
\* double-and-add chain is the point at infinity.
RECURSIVE RefChainFinite(_, _, _, _)
RefChainFinite(p, n, a, r) ==
    IF n = 1 THEN TRUE
    ELSE /\ RefChainFinite(p, n \div 2, a, r)
         /\ RefTimes(p, 2 * (n \div 2), a, r) # RefInfinity
         /\ n % 2 = 1 => /\ RefTimes(p, n \div 2 + 1, a, r) # RefInfinity
                         /\ RefTimes(p, n, a, r) # RefInfinity
C24_ExpWhenChainFinite ==
    LET P == crv.args[1]
        n == crv.args[2]
        nP == RefTimes(P, n, crv.cp.a, crv.cp.cf.rem)
    IN  crv.pc = "exp" /\ OnCurve(P, crv.cp) /\ ReducedPoint(P, crv.cp) /\ n >= 1
            => /\ IsPoint(crv.pts[1]) <=> RefChainFinite(P, n, crv.cp.a, crv.cp.cf.rem)
               /\ IsPoint(crv.pts[1]) =>
                      <<crv.pts[1][1] % crv.cp.cf.rem, crv.pts[1][2] % crv.cp.cf.rem>> = nP
====
